---- MODULE Spec2Model ----
(***************************************************************************)
(* Governance as Code: the PolicyEngine (deny-wins, fail-closed decision   *)
(* engine with evaluation trace) and the ComplianceChecker (exhaustive     *)
(* rule checker).                                                          *)
(*                                                                         *)
(* A std::optional<T> is modelled as a sequence of length at most one:     *)
(* <<>> is std::nullopt and <<v>> holds v.  A std::vector is a sequence,   *)
(* indexed from 1.  An unordered_map is a set of <<key, value>> pairs.     *)
(***************************************************************************)
EXTENDS Naturals, Sequences, FiniteSets, TLC

VARIABLES
    policies_,   \* PolicyEngine::policies_
    rules_,      \* ComplianceChecker::rules_
    op,          \* the operation performed last
    ctx,         \* the caller's RequestContext of the last evaluate (optional)
    result,      \* the EvaluationResult the caller holds (optional)
    invoked,     \* indexes of the policies whose predicate the last evaluate called
    resource,    \* the caller's Resource of the last compliance evaluate (optional)
    report,      \* the ComplianceReport the caller holds (optional)
    checked,     \* indexes of the rules whose predicate the last evaluate called
    kept,        \* an EvaluationResult of an earlier call the caller still holds (optional)
    frame,       \* per concurrent caller: the position of its evaluate call
    local,       \* per call: the automatic variables of evaluate (trace, first_allow, report)
    projected,   \* the value the caller passes to the projector, with its type
    json         \* the std::string the last call of the projector returned

vars == <<policies_, rules_, op, ctx, result, invoked, resource, report, checked,
          kept, frame, local, projected, json>>

engineVars == <<policies_, ctx, result, invoked>>
checkerVars == <<rules_, resource, report, checked>>
callVars == <<frame, local>>
jsonVars == <<projected, json>>

\* ---- bounds -------------------------------------------------------------

MaxPolicies == 3
MaxRules == 3

NumCallers == 2

\* the longest string the projector is driven with
MaxStrLen == 3

\* ---- request / resource model (types.hpp) ---------------------------------

nullopt == <<>>

MakePrincipal(id, role, department) ==
    [id |-> id, role |-> role, department |-> department]

MakeResource(id, type, classification, tags) ==
    [id |-> id, type |-> type, classification |-> classification, tags |-> tags]

MakeContext(principal, res, verb, environment, mfa) ==
    [principal |-> principal, resource |-> res, action |-> [verb |-> verb],
     environment |-> environment, mfa_verified |-> mfa]

PolicyDecision(effect, policy_name, reason) ==
    [effect |-> effect, policy_name |-> policy_name, reason |-> reason]

\* std::unordered_map::count
TagCount(tags, key) == Cardinality({t \in tags : t[1] = key})

\* the principals and resources of main()
alice == MakePrincipal("alice@corp.io", "admin", "IT")
bob == MakePrincipal("bob@corp.io", "engineer", "Backend")
carol == MakePrincipal("carol@corp.io", "analyst", "DataSci")
dave == MakePrincipal("dave@corp.io", "guest", "Consulting")

patient_db ==
    MakeResource("db-patient-records", "database", "restricted",
                 {<<"owner", "health-team">>, <<"region", "us-west-2">>})
public_docs ==
    MakeResource("storage-public-docs", "storage", "public",
                 {<<"owner", "marketing">>})
prod_api ==
    MakeResource("compute-prod-api", "compute", "confidential",
                 {<<"env", "production">>, <<"owner", "platform-team">>})
rogue_db == MakeResource("db-legacy-public", "database", "public", {})

\* the requests the engine is driven with: scenarios of main()
EngineContexts ==
    { MakeContext(alice, patient_db, "read", "production", TRUE),
      MakeContext(bob, prod_api, "write", "production", FALSE),
      MakeContext(bob, prod_api, "read", "production", FALSE),
      MakeContext(carol, public_docs, "read", "dev", FALSE),
      MakeContext(dave, public_docs, "read", "dev", FALSE),
      MakeContext(bob, patient_db, "read", "staging", FALSE) }

\* ---- policy predicates (PolicyFn) -----------------------------------------

admin_full_access_fn_UnsetRole(c) ==
    IF c.principal.role = "admin" \/ c.principal.role = ""
    THEN <<PolicyDecision("Allow", "AdminFullAccess",
                          "Admin role has unrestricted access.")>>
    ELSE nullopt

admin_full_access_fn(c) ==
    IF c.principal.role = "admin"
    THEN <<PolicyDecision("Allow", "AdminFullAccess",
                          "Admin role has unrestricted access.")>>
    ELSE nullopt

mfa_required_for_restricted_fn_ExemptsAdmin(c) ==
    IF /\ c.resource.classification = "restricted"
       /\ ~c.mfa_verified
       /\ c.principal.role # "admin"
    THEN <<PolicyDecision("Deny", "MFARequiredForRestricted",
                          "MFA required to access restricted resources.")>>
    ELSE nullopt

mfa_required_for_restricted_fn(c) ==
    IF c.resource.classification = "restricted" /\ ~c.mfa_verified
    THEN <<PolicyDecision("Deny", "MFARequiredForRestricted",
                          "MFA required to access restricted resources.")>>
    ELSE nullopt

production_immutability_fn_AdminsToo(c) ==
    IF /\ c.environment = "production"
       /\ (c.action.verb = "write" \/ c.action.verb = "delete")
    THEN <<PolicyDecision("Deny", "ProductionImmutability",
                          "Write/delete operations require admin role in production.")>>
    ELSE nullopt

production_immutability_fn(c) ==
    IF /\ c.environment = "production"
       /\ c.principal.role # "admin"
       /\ (c.action.verb = "write" \/ c.action.verb = "delete")
    THEN <<PolicyDecision("Deny", "ProductionImmutability",
                          "Write/delete operations require admin role in production.")>>
    ELSE nullopt

analyst_read_only_fn_ConfidentialToo(c) ==
    IF c.principal.role # "analyst" THEN nullopt
    ELSE IF c.action.verb # "read"
    THEN <<PolicyDecision("Deny", "AnalystReadOnly",
                          "Analysts are limited to read-only access.")>>
    ELSE IF c.resource.classification = "restricted"
    THEN <<PolicyDecision("Deny", "AnalystReadOnly",
                          "Analysts cannot access confidential or restricted data.")>>
    ELSE <<PolicyDecision("Allow", "AnalystReadOnly",
                          "Analyst read access on non-sensitive resource allowed.")>>

analyst_read_only_fn(c) ==
    IF c.principal.role # "analyst" THEN nullopt
    ELSE IF c.action.verb # "read"
    THEN <<PolicyDecision("Deny", "AnalystReadOnly",
                          "Analysts are limited to read-only access.")>>
    ELSE IF \/ c.resource.classification = "restricted"
            \/ c.resource.classification = "confidential"
    THEN <<PolicyDecision("Deny", "AnalystReadOnly",
                          "Analysts cannot access confidential or restricted data.")>>
    ELSE <<PolicyDecision("Allow", "AnalystReadOnly",
                          "Analyst read access on non-sensitive resource allowed.")>>

engineer_access_fn_NoDefer(c) ==
    IF c.principal.role # "engineer" THEN nullopt
    ELSE IF c.environment = "dev" \/ c.environment = "staging"
    THEN <<PolicyDecision("Allow", "EngineerAccess",
                          "Engineers have full access in non-production environments.")>>
    ELSE IF c.environment = "production" /\ c.action.verb = "read"
    THEN <<PolicyDecision("Allow", "EngineerAccess",
                          "Engineers can read production resources.")>>
    ELSE nullopt

engineer_access_fn(c) ==
    IF c.principal.role # "engineer" THEN nullopt
    ELSE IF c.resource.classification = "restricted" THEN nullopt
    ELSE IF c.environment = "dev" \/ c.environment = "staging"
    THEN <<PolicyDecision("Allow", "EngineerAccess",
                          "Engineers have full access in non-production environments.")>>
    ELSE IF c.environment = "production" /\ c.action.verb = "read"
    THEN <<PolicyDecision("Allow", "EngineerAccess",
                          "Engineers can read production resources.")>>
    ELSE nullopt

\* the predicates of test_evaluation_trace
AlwaysAbstain_fn(c) == nullopt
AlwaysAllow_fn(c) == <<PolicyDecision("Allow", "AlwaysAllow", "Always allowed.")>>
AlwaysDeny_fn(c) == <<PolicyDecision("Deny", "AlwaysDeny", "Always denied.")>>

\* a host predicate that gives no explanation: PolicyFn places no constraint
\* on the reason string of the decision it returns
Silent_fn(c) ==
    IF c.action.verb = "read"
    THEN <<PolicyDecision("Allow", "Silent", "")>>
    ELSE <<PolicyDecision("Deny", "Silent", "")>>

\* policy.evaluate(ctx): the call of the std::function held by a Policy
Invoke(fn, c) ==
    CASE fn = "admin_full_access" -> admin_full_access_fn(c)
      [] fn = "mfa_required_for_restricted" -> mfa_required_for_restricted_fn(c)
      [] fn = "production_immutability" -> production_immutability_fn(c)
      [] fn = "analyst_read_only" -> analyst_read_only_fn(c)
      [] fn = "engineer_access" -> engineer_access_fn(c)
      [] fn = "AlwaysAbstain" -> AlwaysAbstain_fn(c)
      [] fn = "AlwaysAllow" -> AlwaysAllow_fn(c)
      [] fn = "AlwaysDeny" -> AlwaysDeny_fn(c)
      [] fn = "Silent" -> Silent_fn(c)

\* struct Policy: the name and the predicate are independent fields
Policy(name, fn) == [name |-> name, evaluate |-> fn]

admin_full_access == Policy("AdminFullAccess", "admin_full_access")
mfa_required_for_restricted ==
    Policy("MFARequiredForRestricted", "mfa_required_for_restricted")
production_immutability ==
    Policy("ProductionImmutability", "production_immutability")
analyst_read_only == Policy("AnalystReadOnly", "analyst_read_only")
engineer_access == Policy("EngineerAccess", "engineer_access")

\* the policies a host registers: built-in ones, the ones of the tests, a
\* built-in predicate registered under the host's own name, and a predicate
\* that returns empty reasons
PolicyInputs ==
    { admin_full_access,
      production_immutability,
      Policy("AlwaysAbstain", "AlwaysAbstain"),
      Policy("AlwaysAllow", "AlwaysAllow"),
      Policy("AlwaysDeny", "AlwaysDeny"),
      Policy("Gate", "analyst_read_only"),
      Policy("Silent", "Silent") }

\* ---- PolicyEngine (policy_engine.cpp) -------------------------------------

\* line 12-13: EvaluationTrace trace; trace.context = ctx;
NewTrace(c) == [context |-> c, steps |-> <<>>]

AbstainStep_WithReason(policy) ==
    [policy_name |-> policy.name, outcome |-> "Abstain", reason |-> "abstained"]

\* line 19
AbstainStep(policy) ==
    [policy_name |-> policy.name, outcome |-> "Abstain", reason |-> ""]

IsDeny_Never(decision) == FALSE

\* line 23: decision->effect == Effect::Deny
IsDeny(decision) == decision.effect = "Deny"

\* line 24
DenyStep(policy, decision) ==
    [policy_name |-> policy.name, outcome |-> "Deny", reason |-> decision.reason]

AllowStep_DecisionName(policy, decision) ==
    [policy_name |-> decision.policy_name, outcome |-> "Allow",
     reason |-> decision.reason]

\* line 28
AllowStep(policy, decision) ==
    [policy_name |-> policy.name, outcome |-> "Allow", reason |-> decision.reason]

RememberAllow_Last(first_allow, decision) == decision

\* line 29-31: if (!first_allow) first_allow = decision;
RememberAllow(first_allow, decision) ==
    IF first_allow = nullopt THEN decision ELSE first_allow

default_deny_FailOpen ==
    PolicyDecision("Allow", "default", "No policy explicitly granted access.")

\* line 36
default_deny ==
    PolicyDecision("Deny", "default", "No policy explicitly granted access.")

AfterLoop_AllowWhenUnopposed(first_allow, trace, calls) ==
    IF first_allow # nullopt
    THEN [decision |-> first_allow[1], trace |-> trace, invoked |-> calls]
    ELSE IF Len(trace.steps) = 0
    THEN [decision |-> PolicyDecision("Allow", "default", "No policy registered."),
          trace |-> trace, invoked |-> calls]
    ELSE [decision |-> default_deny, trace |-> trace, invoked |-> calls]

\* line 34-37: the returns after the loop
AfterLoop(first_allow, trace, calls) ==
    IF first_allow # nullopt
    THEN [decision |-> first_allow[1], trace |-> trace, invoked |-> calls]
    ELSE [decision |-> default_deny, trace |-> trace, invoked |-> calls]

\* trace.steps.push_back(step)
PushStep(trace, step) == [trace EXCEPT !.steps = Append(@, step)]

DenyReturn_Unrecorded(policy, decision, trace, calls) ==
    [decision |-> decision, trace |-> trace, invoked |-> calls]

\* line 24-25: record the Deny step and return the policy's decision
DenyReturn(policy, decision, trace, calls) ==
    [decision |-> decision,
     trace |-> PushStep(trace, DenyStep(policy, decision)),
     invoked |-> calls]

\* (variant: the predicates after a denying one are invoked as well)
RECURSIVE EvaluateFrom_KeepsGoing(_, _, _, _, _, _)
EvaluateFrom_KeepsGoing(policies, c, i, trace, first_allow, calls) ==
    IF i > Len(policies)
    THEN AfterLoop(first_allow, trace, calls)
    ELSE LET policy == policies[i]
             decision == Invoke(policy.evaluate, c)
             calls2 == Append(calls, i)
         IN  IF decision = nullopt
             THEN EvaluateFrom_KeepsGoing(policies, c, i + 1,
                               PushStep(trace, AbstainStep(policy)),
                               first_allow, calls2)
             ELSE IF IsDeny(decision[1])
             THEN [DenyReturn(policy, decision[1], trace, calls2) EXCEPT
                      !.invoked = calls2 \o [k \in 1..(Len(policies) - i) |-> i + k]]
             ELSE EvaluateFrom_KeepsGoing(policies, c, i + 1,
                               PushStep(trace, AllowStep(policy, decision[1])),
                               RememberAllow(first_allow, decision),
                               calls2)

\* (variant: the first policy that does not abstain decides, Allow included)
RECURSIVE EvaluateFrom_FirstMatchWins(_, _, _, _, _, _)
EvaluateFrom_FirstMatchWins(policies, c, i, trace, first_allow, calls) ==
    IF i > Len(policies)
    THEN AfterLoop(first_allow, trace, calls)
    ELSE LET policy == policies[i]
             decision == Invoke(policy.evaluate, c)
             calls2 == Append(calls, i)
         IN  IF decision = nullopt
             THEN EvaluateFrom_FirstMatchWins(policies, c, i + 1,
                               PushStep(trace, AbstainStep(policy)),
                               first_allow, calls2)
             ELSE IF IsDeny(decision[1])
             THEN DenyReturn(policy, decision[1], trace, calls2)
             ELSE [decision |-> decision[1],
                   trace |-> PushStep(trace, AllowStep(policy, decision[1])),
                   invoked |-> calls2]

\* line 16-37: the range-for over policies_ from position i on, and the
\* returns.  calls records the evaluations of policy.evaluate(ctx) (line 17).
RECURSIVE EvaluateFrom(_, _, _, _, _, _)
EvaluateFrom(policies, c, i, trace, first_allow, calls) ==
    IF i > Len(policies)
    THEN AfterLoop(first_allow, trace, calls)
    ELSE LET policy == policies[i]
             decision == Invoke(policy.evaluate, c)
             calls2 == Append(calls, i)
         IN  IF decision = nullopt
             THEN EvaluateFrom(policies, c, i + 1,
                               PushStep(trace, AbstainStep(policy)),
                               first_allow, calls2)
             ELSE IF IsDeny(decision[1])
             THEN DenyReturn(policy, decision[1], trace, calls2)
             ELSE EvaluateFrom(policies, c, i + 1,
                               PushStep(trace, AllowStep(policy, decision[1])),
                               RememberAllow(first_allow, decision),
                               calls2)

\* PolicyEngine::evaluate(ctx) on the engine holding `policies`
PolicyEngine_evaluate(policies, c) ==
    EvaluateFrom(policies, c, 1, NewTrace(c), nullopt, <<>>)

evaluated_count_AllowOnly(trace) ==
    Cardinality({k \in 1..Len(trace.steps) : trace.steps[k].outcome = "Allow"})

\* EvaluationTrace::evaluated_count: the steps whose outcome is not Abstain
evaluated_count(trace) ==
    Cardinality({k \in 1..Len(trace.steps) : trace.steps[k].outcome # "Abstain"})

\* EvaluationTrace::abstain_count: steps.size() - evaluated_count()
abstain_count(trace) == Len(trace.steps) - evaluated_count(trace)

\* PolicyEngine::policy_count
policy_count == Len(policies_)

default_policy_engine_AnalystFirst ==
    <<admin_full_access, mfa_required_for_restricted, analyst_read_only,
      production_immutability, engineer_access>>

\* default_policy_engine(): a fresh engine after its five register_policy calls
default_policy_engine ==
    Append(Append(Append(Append(Append(<<>>,
        admin_full_access),
        mfa_required_for_restricted),
        production_immutability),
        analyst_read_only),
        engineer_access)

\* the values the request fields take (comments of types.hpp), and the empty
\* string for a role or classification that was never set
Roles == {"admin", "engineer", "analyst", "guest", ""}
Classifications == {"public", "internal", "confidential", "restricted", ""}
Verbs == {"read", "write", "delete", "execute"}
Environments == {"production", "staging", "dev"}

\* the requests the default engine is driven with
DefaultContexts ==
    { MakeContext(MakePrincipal("p", role, "dept"),
                  MakeResource("r", "database", classification, {}),
                  verb, environment, mfa) :
        role \in Roles, classification \in Classifications, verb \in Verbs,
        environment \in Environments, mfa \in BOOLEAN }

\* ---- actions of the engine ----------------------------------------------

register_policy_UniqueNames(policy) ==
    /\ Len(policies_) < MaxPolicies
    /\ policies_' =
          IF \E k \in 1..Len(policies_) : policies_[k].name = policy.name
          THEN policies_
          ELSE Append(policies_, policy)
    /\ op' = "register_policy"
    /\ UNCHANGED <<ctx, result, invoked, checkerVars, kept, callVars, jsonVars>>

\* PolicyEngine::register_policy(policy)
register_policy(policy) ==
    /\ Len(policies_) < MaxPolicies
    /\ policies_' = Append(policies_, policy)
    /\ op' = "register_policy"
    /\ UNCHANGED <<ctx, result, invoked, checkerVars, kept, callVars, jsonVars>>

evaluate_Draining(c) ==
    LET r == PolicyEngine_evaluate(policies_, c)
    IN  /\ ctx' = <<c>>
        /\ result' = <<[decision |-> r.decision, trace |-> r.trace]>>
        /\ invoked' = r.invoked
        /\ op' = "evaluate"
        /\ policies_' = SubSeq(policies_, 1, Len(r.trace.steps) - 1)
        /\ UNCHANGED <<checkerVars, kept, callVars, jsonVars>>

\* auto result = engine.evaluate(ctx);
evaluate(c) ==
    LET r == PolicyEngine_evaluate(policies_, c)
    IN  /\ ctx' = <<c>>
        /\ result' = <<[decision |-> r.decision, trace |-> r.trace]>>
        /\ invoked' = r.invoked
        /\ op' = "evaluate"
        /\ UNCHANGED <<policies_, checkerVars, kept, callVars, jsonVars>>

\* auto engine = default_policy_engine();
make_default_engine ==
    /\ policies_' = default_policy_engine
    /\ op' = "default_policy_engine"
    /\ UNCHANGED <<ctx, result, invoked, checkerVars, kept, callVars, jsonVars>>

\* ---- ComplianceChecker (compliance.cpp) ----------------------------------

\* the predicates of the rules of default_compliance_checker
RequiresOwnerTag_check(r) == TagCount(r.tags, "owner") > 0

SecretsNotPublic_check(r) == ~(r.type = "secret" /\ r.classification = "public")

DatabasesMustBeRestricted_check_RestrictedOnly(r) ==
    IF r.type # "database" THEN TRUE
    ELSE r.classification = "restricted"

DatabasesMustBeRestricted_check(r) ==
    IF r.type # "database" THEN TRUE
    ELSE r.classification = "restricted" \/ r.classification = "confidential"

NoUnclassifiedResources_check(r) == r.classification # ""

\* the predicate of test_custom_rule
MustHaveRegionTag_check(r) == TagCount(r.tags, "region") > 0

\* rule.check(resource): the call of the std::function held by a ComplianceRule
Check(fn, r) ==
    CASE fn = "RequiresOwnerTag" -> RequiresOwnerTag_check(r)
      [] fn = "SecretsNotPublic" -> SecretsNotPublic_check(r)
      [] fn = "DatabasesMustBeRestricted" -> DatabasesMustBeRestricted_check(r)
      [] fn = "NoUnclassifiedResources" -> NoUnclassifiedResources_check(r)
      [] fn = "MustHaveRegionTag" -> MustHaveRegionTag_check(r)

\* struct ComplianceRule
ComplianceRule(name, description, fn) ==
    [name |-> name, description |-> description, check |-> fn]

RequiresOwnerTag ==
    ComplianceRule("RequiresOwnerTag", "Resource must have an 'owner' tag.",
                   "RequiresOwnerTag")
SecretsNotPublic ==
    ComplianceRule("SecretsNotPublic",
                   "Resources of type 'secret' must not be classified as 'public'.",
                   "SecretsNotPublic")
DatabasesMustBeRestricted ==
    ComplianceRule("DatabasesMustBeRestricted",
                   "Database resources must be classified as 'restricted' or 'confidential'.",
                   "DatabasesMustBeRestricted")
NoUnclassifiedResources ==
    ComplianceRule("NoUnclassifiedResources",
                   "Every resource must have a non-empty classification.",
                   "NoUnclassifiedResources")
MustHaveRegionTag ==
    ComplianceRule("MustHaveRegionTag", "Resource must specify a 'region' tag.",
                   "MustHaveRegionTag")

\* the rules a host adds
RuleInputs ==
    { RequiresOwnerTag, SecretsNotPublic, DatabasesMustBeRestricted,
      NoUnclassifiedResources, MustHaveRegionTag }

\* the resources the checker is driven with: main() and the compliance tests
CheckerResources ==
    { patient_db, public_docs, rogue_db,
      MakeResource("secret-api-key", "secret", "public", {<<"owner", "devops">>}),
      MakeResource("mystery-box", "storage", "", {<<"owner", "unknown">>}),
      MakeResource("svc", "compute", "internal", {}) }

\* line 12-13: ComplianceReport report; report.resource_id = resource.id;
NewReport(r) == [resource_id |-> r.id, violations |-> <<>>]

\* line 17: "[" + rule.name + "] " + rule.description
Violation(rule) == "[" \o rule.name \o "] " \o rule.description

\* line 16-18: the body of the loop for one rule
CheckRule(rule, r, rep) ==
    IF ~Check(rule.check, r)
    THEN [rep EXCEPT !.violations = Append(@, Violation(rule))]
    ELSE rep

\* (variant: the loop stops at the first violation)
\* line 15-20: the range-for over rules_ from position i on, and the return.
\* calls records the evaluations of rule.check(resource) (line 16).
RECURSIVE CheckFrom_ShortCircuits(_, _, _, _, _)
CheckFrom_ShortCircuits(rules, r, i, rep, calls) ==
    IF i > Len(rules) \/ Len(rep.violations) > 0
    THEN [report |-> rep, checked |-> calls]
    ELSE CheckFrom_ShortCircuits(rules, r, i + 1, CheckRule(rules[i], r, rep),
                                 Append(calls, i))

RECURSIVE CheckFrom(_, _, _, _, _)
CheckFrom(rules, r, i, rep, calls) ==
    IF i > Len(rules)
    THEN [report |-> rep, checked |-> calls]
    ELSE CheckFrom(rules, r, i + 1, CheckRule(rules[i], r, rep), Append(calls, i))

\* ComplianceChecker::evaluate(resource) on the checker holding `rules`
ComplianceChecker_evaluate(rules, r) ==
    CheckFrom(rules, r, 1, NewReport(r), <<>>)

compliant_Inverted(rep) == Len(rep.violations) # 0

\* ComplianceReport::compliant
compliant(rep) == Len(rep.violations) = 0

\* ComplianceChecker::rule_count
rule_count == Len(rules_)

\* ---- actions of the checker ---------------------------------------------

\* ComplianceChecker::add_rule(rule)
add_rule(rule) ==
    /\ Len(rules_) < MaxRules
    /\ rules_' = Append(rules_, rule)
    /\ op' = "add_rule"
    /\ UNCHANGED <<resource, report, checked, engineVars, kept, callVars, jsonVars>>

\* auto report = checker.evaluate(resource);
check(r) ==
    LET c == ComplianceChecker_evaluate(rules_, r)
    IN  /\ resource' = <<r>>
        /\ report' = <<c.report>>
        /\ checked' = c.checked
        /\ op' = "check"
        /\ UNCHANGED <<rules_, engineVars, kept, callVars, jsonVars>>

\* ---- the caller's objects ---------------------------------------------------

HeldAfterWrite_Aliased(held, c) ==
    IF held = nullopt THEN held
    ELSE <<[held[1] EXCEPT !.trace.context = c]>>

\* EvaluationTrace::context is a RequestContext member held by value, so a
\* result the caller holds is what it was after the caller writes c to its
\* own context object
HeldAfterWrite(held, c) == held

\* the caller stores the result of its last evaluate
keep ==
    /\ result # nullopt
    /\ kept # result
    /\ kept' = result
    /\ op' = "keep"
    /\ UNCHANGED <<policies_, ctx, result, invoked, checkerVars, callVars, jsonVars>>

\* the caller assigns to its context object after a call:
\* ctx.action = { "delete" }; ctx.environment = "staging"; ...
mutate_ctx(c) ==
    /\ ctx # nullopt
    /\ ctx[1] # c
    /\ ctx' = <<c>>
    /\ result' = HeldAfterWrite(result, c)
    /\ kept' = HeldAfterWrite(kept, c)
    /\ op' = "mutate_ctx"
    /\ UNCHANGED <<policies_, invoked, checkerVars, callVars, jsonVars>>

\* the caller's context object goes out of scope
destroy_ctx ==
    /\ ctx # nullopt
    /\ ctx' = nullopt
    /\ op' = "destroy_ctx"
    /\ UNCHANGED <<policies_, result, invoked, kept, checkerVars, callVars, jsonVars>>

\* ---- concurrent callers -----------------------------------------------------

Callers == 1..NumCallers

\* a caller with no call in progress.  overlap records whether another call
\* was in progress at some moment of this caller's call.
IdleFrame ==
    [pc |-> "idle", kind |-> "none", arg |-> <<>>, i |-> 0, ret |-> <<>>,
     overlap |-> FALSE]
NoLocals == [trace |-> <<>>, first_allow |-> nullopt, report |-> <<>>]

LocalSlot_Static(t) == 1

\* trace, first_allow and report are automatic variables: every call of
\* evaluate has its own
LocalSlot(t) == t

NoCallInProgress == \A t \in Callers : frame[t].pc = "idle"

default_compliance_checker_OwnerLast ==
    <<SecretsNotPublic, DatabasesMustBeRestricted, NoUnclassifiedResources,
      RequiresOwnerTag>>

\* default_compliance_checker(): a fresh checker after its four add_rule calls
default_compliance_checker ==
    Append(Append(Append(Append(<<>>,
        RequiresOwnerTag),
        SecretsNotPublic),
        DatabasesMustBeRestricted),
        NoUnclassifiedResources)

\* auto checker = default_compliance_checker();
make_default_checker ==
    /\ rules_' = default_compliance_checker
    /\ op' = "default_compliance_checker"
    /\ UNCHANGED <<resource, report, checked, engineVars, kept, callVars, jsonVars>>

\* the frames after caller t has entered a call: t and every call already in
\* progress overlap
Entered(t, kind, arg) ==
    [u \in Callers |->
        IF u = t
        THEN [pc |-> "loop", kind |-> kind, arg |-> arg, i |-> 1, ret |-> <<>>,
              overlap |-> \E v \in Callers \ {t} : frame[v].pc = "loop"]
        ELSE IF frame[u].pc = "loop"
        THEN [frame[u] EXCEPT !.overlap = TRUE]
        ELSE frame[u]]

Returned_(t, value) ==
    [frame EXCEPT ![t].pc = "done", ![t].ret = <<value>>]

\* policy_engine.cpp line 11-14: caller t enters PolicyEngine::evaluate(c)
begin_evaluate(t, c) ==
    /\ frame[t].pc = "idle"
    /\ frame' = Entered(t, "evaluate", c)
    /\ local' = [local EXCEPT ![LocalSlot(t)] =
                    [trace |-> NewTrace(c), first_allow |-> nullopt,
                     report |-> <<>>]]
    /\ UNCHANGED <<op, engineVars, checkerVars, kept, jsonVars>>

\* policy_engine.cpp line 16-37: one iteration of the loop of caller t, or
\* the return after the loop
step_evaluate(t) ==
    /\ frame[t].pc = "loop"
    /\ frame[t].kind = "evaluate"
    /\ LET f == frame[t]
           s == LocalSlot(t)
           l == local[s]
       IN  IF f.i > Len(policies_)
           THEN LET r == AfterLoop(l.first_allow, l.trace, <<>>)
                IN  /\ frame' = Returned_(t, [decision |-> r.decision,
                                              trace |-> r.trace])
                    /\ local' = local
           ELSE LET policy == policies_[f.i]
                    decision == Invoke(policy.evaluate, f.arg)
                IN  IF decision = nullopt
                    THEN /\ local' = [local EXCEPT ![s].trace =
                                         PushStep(l.trace, AbstainStep(policy))]
                         /\ frame' = [frame EXCEPT ![t].i = f.i + 1]
                    ELSE IF IsDeny(decision[1])
                    THEN LET r == DenyReturn(policy, decision[1], l.trace, <<>>)
                         IN  /\ local' = [local EXCEPT ![s].trace = r.trace]
                             /\ frame' = Returned_(t, [decision |-> r.decision,
                                                       trace |-> r.trace])
                    ELSE /\ local' = [local EXCEPT
                               ![s].trace = PushStep(l.trace,
                                                     AllowStep(policy, decision[1])),
                               ![s].first_allow =
                                   RememberAllow(l.first_allow, decision)]
                         /\ frame' = [frame EXCEPT ![t].i = f.i + 1]
    /\ UNCHANGED <<op, engineVars, checkerVars, kept, jsonVars>>

\* compliance.cpp line 11-13: caller t enters ComplianceChecker::evaluate(r)
begin_check(t, r) ==
    /\ frame[t].pc = "idle"
    /\ frame' = Entered(t, "check", r)
    /\ local' = [local EXCEPT ![LocalSlot(t)] =
                    [trace |-> <<>>, first_allow |-> nullopt,
                     report |-> NewReport(r)]]
    /\ UNCHANGED <<op, engineVars, checkerVars, kept, jsonVars>>

\* compliance.cpp line 15-20: one iteration of the loop of caller t, or the
\* return after the loop
step_check(t) ==
    /\ frame[t].pc = "loop"
    /\ frame[t].kind = "check"
    /\ LET f == frame[t]
           s == LocalSlot(t)
           l == local[s]
       IN  IF f.i > Len(rules_)
           THEN /\ frame' = Returned_(t, l.report)
                /\ local' = local
           ELSE /\ local' = [local EXCEPT ![s].report =
                                CheckRule(rules_[f.i], f.arg, l.report)]
                /\ frame' = [frame EXCEPT ![t].i = f.i + 1]
    /\ UNCHANGED <<op, engineVars, checkerVars, kept, jsonVars>>

\* caller t takes the returned value and is free for its next call
collect(t) ==
    /\ frame[t].pc = "done"
    /\ frame' = [frame EXCEPT ![t] = IdleFrame]
    /\ UNCHANGED <<op, engineVars, checkerVars, kept, local, jsonVars>>

\* ---- Result Projector (json.hpp) --------------------------------------------

\* a std::string is a TLA+ string; At(s, k) is the one-character string s[k-1]
At(s, k) == SubSeq(s, k, k)

EscapeChar_FormFeedToo(c) ==
    CASE c = "\"" -> "\\\""
      [] c = "\\" -> "\\\\"
      [] c = "\n" -> "\\n"
      [] c = "\r" -> "\\r"
      [] c = "\t" -> "\\t"
      [] c = "\f" -> "\\f"
      [] OTHER -> c

EscapeChar_BackslashRaw(c) ==
    CASE c = "\"" -> "\\\""
      [] c = "\n" -> "\\n"
      [] c = "\r" -> "\\r"
      [] c = "\t" -> "\\t"
      [] OTHER -> c

\* json.hpp line 17-24: the switch on one character of the input
EscapeChar(c) ==
    CASE c = "\"" -> "\\\""
      [] c = "\\" -> "\\\\"
      [] c = "\n" -> "\\n"
      [] c = "\r" -> "\\r"
      [] c = "\t" -> "\\t"
      [] OTHER -> c

\* json.hpp line 16-26: the range-for over s from position i on
RECURSIVE EscapeFrom(_, _, _)
EscapeFrom(s, i, acc) ==
    IF i > Len(s) THEN acc
    ELSE EscapeFrom(s, i + 1, acc \o EscapeChar(At(s, i)))

\* json_detail::escape
escape(s) == EscapeFrom(s, 1, "")

\* json_detail::quoted
quoted(s) == "\"" \o escape(s) \o "\""

\* json_detail::effect_str
effect_str(e) == IF e = "Allow" THEN "Allow" ELSE "Deny"

\* json_detail::outcome_str
outcome_str(o) ==
    CASE o = "Allow" -> "Allow"
      [] o = "Deny" -> "Deny"
      [] o = "Abstain" -> "Abstain"
      [] OTHER -> "Unknown"

\* to_json(const PolicyDecision&)
to_json_PolicyDecision(d) ==
    "{\n"
    \o "  \"effect\": " \o quoted(effect_str(d.effect)) \o ",\n"
    \o "  \"policy_name\": " \o quoted(d.policy_name) \o ",\n"
    \o "  \"reason\": " \o quoted(d.reason) \o "\n"
    \o "}"

\* to_json(const PolicyStep&)
to_json_PolicyStep(step) ==
    "{ \"policy\": " \o quoted(step.policy_name)
    \o ", \"outcome\": " \o quoted(outcome_str(step.outcome))
    \o ", \"reason\": " \o quoted(step.reason)
    \o " }"

RECURSIVE StepsFrom_Reversed(_, _, _)
StepsFrom_Reversed(st, i, os) ==
    IF i > Len(st) THEN os
    ELSE StepsFrom_Reversed(st, i + 1,
            os \o "\n      " \o to_json_PolicyStep(st[Len(st) + 1 - i])
               \o (IF i + 1 <= Len(st) THEN "," ELSE ""))

\* json.hpp line 83-86: the loop over t.steps from position i on (1-based)
RECURSIVE StepsFrom(_, _, _)
StepsFrom(st, i, os) ==
    IF i > Len(st) THEN os
    ELSE StepsFrom(st, i + 1,
            os \o "\n      " \o to_json_PolicyStep(st[i])
               \o (IF i + 1 <= Len(st) THEN "," ELSE ""))

\* to_json(const EvaluationResult&)
to_json_EvaluationResult(r) ==
    LET d == r.decision
        t == r.trace
    IN  StepsFrom(t.steps, 1,
            "{\n"
            \o "  \"decision\": {\n"
            \o "    \"effect\": " \o quoted(effect_str(d.effect)) \o ",\n"
            \o "    \"policy_name\": " \o quoted(d.policy_name) \o ",\n"
            \o "    \"reason\": " \o quoted(d.reason) \o "\n"
            \o "  },\n"
            \o "  \"trace\": {\n"
            \o "    \"principal\": " \o quoted(t.context.principal.id) \o ",\n"
            \o "    \"resource\": " \o quoted(t.context.resource.id) \o ",\n"
            \o "    \"action\": " \o quoted(t.context.action.verb) \o ",\n"
            \o "    \"environment\": " \o quoted(t.context.environment) \o ",\n"
            \o "    \"steps\": [")
        \o "\n    ]\n"
        \o "  }\n"
        \o "}"

\* json.hpp line 99-102: the loop over report.violations from position i on
RECURSIVE ViolationsFrom(_, _, _)
ViolationsFrom(v, i, os) ==
    IF i > Len(v) THEN os
    ELSE ViolationsFrom(v, i + 1,
            os \o "\n    " \o quoted(v[i])
               \o (IF i + 1 <= Len(v) THEN "," ELSE ""))

\* to_json(const ComplianceReport&)
to_json_ComplianceReport(rep) ==
    ViolationsFrom(rep.violations, 1,
        "{\n"
        \o "  \"resource_id\": " \o quoted(rep.resource_id) \o ",\n"
        \o "  \"compliant\": " \o (IF compliant(rep) THEN "true" ELSE "false") \o ",\n"
        \o "  \"violations\": [")
    \o "\n  ]\n"
    \o "}"

\* the characters the strings are made of: the five the projector rewrites, a
\* control character it does not (form feed), and two letters, one of them
\* the second character of an escape sequence
Alphabet == {"\"", "\\", "\n", "\r", "\t", "\f", "a", "n"}

RECURSIVE StringsUpTo(_)
StringsUpTo(n) ==
    IF n = 0 THEN {""}
    ELSE LET shorter == StringsUpTo(n - 1)
         IN  shorter \cup {s \o c : s \in shorter, c \in Alphabet}

Strings == StringsUpTo(MaxStrLen)

\* ---- actions of the projector -------------------------------------------

\* the caller holds no value to project
NoArgument == [kind |-> "none", value |-> ""]

\* json_detail::escape(s) on the string the caller holds
escape_call ==
    /\ projected.kind = "string"
    /\ json' = escape(projected.value)
    /\ op' = "escape"
    /\ UNCHANGED <<projected, engineVars, checkerVars, kept, callVars>>

\* json_detail::quoted(s) on the string the caller holds
quoted_call ==
    /\ projected.kind = "string"
    /\ json' = quoted(projected.value)
    /\ op' = "quoted"
    /\ UNCHANGED <<projected, engineVars, checkerVars, kept, callVars>>

\* to_json(d) on the PolicyDecision the caller holds
to_json_decision ==
    /\ projected.kind = "PolicyDecision"
    /\ json' = to_json_PolicyDecision(projected.value)
    /\ op' = "to_json"
    /\ UNCHANGED <<projected, engineVars, checkerVars, kept, callVars>>

\* to_json(step) on the PolicyStep the caller holds
to_json_step ==
    /\ projected.kind = "PolicyStep"
    /\ json' = to_json_PolicyStep(projected.value)
    /\ op' = "to_json"
    /\ UNCHANGED <<projected, engineVars, checkerVars, kept, callVars>>

\* to_json(result) on the EvaluationResult the caller holds
to_json_result ==
    /\ projected.kind = "EvaluationResult"
    /\ json' = to_json_EvaluationResult(projected.value)
    /\ op' = "to_json"
    /\ UNCHANGED <<projected, engineVars, checkerVars, kept, callVars>>

\* to_json(report) on the ComplianceReport the caller holds
to_json_report ==
    /\ projected.kind = "ComplianceReport"
    /\ json' = to_json_ComplianceReport(projected.value)
    /\ op' = "to_json"
    /\ UNCHANGED <<projected, engineVars, checkerVars, kept, callVars>>

Init ==
    /\ policies_ = <<>>
    /\ rules_ = <<>>
    /\ op = "init"
    /\ ctx = nullopt
    /\ result = nullopt
    /\ invoked = <<>>
    /\ resource = nullopt
    /\ report = nullopt
    /\ checked = <<>>
    /\ kept = nullopt
    /\ frame = [t \in Callers |-> IdleFrame]
    /\ local = [t \in Callers |-> NoLocals]
    /\ projected = NoArgument
    /\ json = ""

NextEngine ==
    \/ \E policy \in PolicyInputs : register_policy(policy)
    \/ \E c \in EngineContexts : evaluate(c)

SpecEngine == Init /\ [][NextEngine]_vars

NextChecker ==
    \/ \E rule \in RuleInputs : add_rule(rule)
    \/ \E r \in CheckerResources : check(r)

SpecChecker == Init /\ [][NextChecker]_vars

NextDefault ==
    \/ make_default_engine
    \/ \E c \in DefaultContexts : evaluate(c)

SpecDefault == Init /\ [][NextDefault]_vars

\* a host that owns one engine and one checker: a few policies (two of them
\* under the same name), rules, requests and resources
HostPolicies ==
    { admin_full_access, production_immutability,
      Policy("AdminFullAccess", "AlwaysDeny") }
HostContexts ==
    { MakeContext(alice, patient_db, "read", "production", TRUE),
      MakeContext(bob, prod_api, "write", "production", FALSE) }
HostRules == { RequiresOwnerTag, DatabasesMustBeRestricted }
HostResources == { patient_db, rogue_db }

NextHost ==
    \/ \E policy \in HostPolicies : register_policy(policy)
    \/ \E c \in HostContexts : evaluate(c)
    \/ \E rule \in HostRules : add_rule(rule)
    \/ \E r \in HostResources : check(r)

SpecHost == Init /\ [][NextHost]_vars

\* the requests of test_production_immutability, which reuses one context
\* object and rewrites its fields between the calls
CallerContexts ==
    HostContexts \cup { MakeContext(bob, prod_api, "delete", "production", FALSE) }

NextCaller ==
    \/ \E policy \in HostPolicies : register_policy(policy)
    \/ \E c \in CallerContexts : evaluate(c)
    \/ keep
    \/ \E c \in CallerContexts : mutate_ctx(c)
    \/ destroy_ctx

SpecCaller == Init /\ [][NextCaller]_vars

\* the resources the default checker is driven with
ResourceTypes == {"database", "secret", "storage", "compute"}
TagSets == { {}, {<<"owner", "devops">>}, {<<"region", "us-west-2">>} }
DefaultResources ==
    { MakeResource("r", type, classification, tags) :
        type \in ResourceTypes, classification \in Classifications,
        tags \in TagSets }

NextDefaultChecker ==
    \/ make_default_checker
    \/ \E r \in DefaultResources : check(r)

SpecDefaultChecker == Init /\ [][NextDefaultChecker]_vars

\* the strings a host puts in the fields of the values it projects
FieldStrings ==
    {"", "AdminFullAccess", "say \"no\"", "C:\\new", "two\nlines",
     "page\fbreak"}

JsonDecisions ==
    { PolicyDecision(effect, policy_name, reason) :
        effect \in {"Allow", "Deny"}, policy_name \in FieldStrings,
        reason \in FieldStrings }

JsonSteps ==
    { [policy_name |-> policy_name, outcome |-> outcome, reason |-> reason] :
        policy_name \in FieldStrings, outcome \in {"Allow", "Deny", "Abstain"},
        reason \in FieldStrings }

\* the engines, requests, checkers and resources whose results are projected
JsonEngines ==
    { <<>>,
      default_policy_engine,
      <<Policy("Audit \"v2\"", "AlwaysAbstain"), Policy("C:\\rules", "AlwaysAllow"),
        Policy("tab\there", "AlwaysDeny")>> }
JsonContexts ==
    { MakeContext(alice, patient_db, "read", "production", TRUE),
      MakeContext(bob, patient_db, "read", "staging", TRUE),
      MakeContext(MakePrincipal("o\"brien", "analyst", "R\\D"),
                  MakeResource("db\\legacy", "database", "public", {}),
                  "read\n", "dev\r", FALSE) }
JsonCheckers ==
    { <<>>,
      <<RequiresOwnerTag>>,
      <<ComplianceRule("Region \"tag\"", "Resource must specify a 'region' tag.",
                       "MustHaveRegionTag"),
        ComplianceRule("Owner", "C:\\owners\tmissing", "RequiresOwnerTag")>> }
JsonResources ==
    { patient_db, rogue_db, MakeResource("db\f1", "database", "public", {}) }

JsonResults ==
    { [decision |-> PolicyEngine_evaluate(engine, c).decision,
       trace |-> PolicyEngine_evaluate(engine, c).trace] :
        engine \in JsonEngines, c \in JsonContexts }

JsonReports ==
    { ComplianceChecker_evaluate(checker, r).report :
        checker \in JsonCheckers, r \in JsonResources }

JsonInputs ==
    {[kind |-> "string", value |-> s] : s \in Strings}
    \cup {[kind |-> "PolicyDecision", value |-> d] : d \in JsonDecisions}
    \cup {[kind |-> "PolicyStep", value |-> st] : st \in JsonSteps}
    \cup {[kind |-> "EvaluationResult", value |-> r] : r \in JsonResults}
    \cup {[kind |-> "ComplianceReport", value |-> rep] : rep \in JsonReports}

\* the caller holds any one value to project
InitJson ==
    /\ policies_ = <<>>
    /\ rules_ = <<>>
    /\ op = "init"
    /\ ctx = nullopt
    /\ result = nullopt
    /\ invoked = <<>>
    /\ resource = nullopt
    /\ report = nullopt
    /\ checked = <<>>
    /\ kept = nullopt
    /\ frame = [t \in Callers |-> IdleFrame]
    /\ local = [t \in Callers |-> NoLocals]
    /\ projected \in JsonInputs
    /\ json = ""

NextJson ==
    \/ escape_call
    \/ quoted_call
    \/ to_json_decision
    \/ to_json_step
    \/ to_json_result
    \/ to_json_report

SpecJson == InitJson /\ [][NextJson]_vars

\* the requests and the resource of the concurrent callers
ConcurrentContexts ==
    { MakeContext(alice, patient_db, "read", "production", FALSE),
      MakeContext(bob, prod_api, "read", "production", FALSE) }
ConcurrentResources == { rogue_db }

\* registration phase (no call in progress), then the use phase
NextConcurrent ==
    \/ NoCallInProgress /\ make_default_engine
    \/ NoCallInProgress /\ make_default_checker
    \/ \E t \in Callers : \E c \in ConcurrentContexts : begin_evaluate(t, c)
    \/ \E t \in Callers : step_evaluate(t)
    \/ \E t \in Callers : \E r \in ConcurrentResources : begin_check(t, r)
    \/ \E t \in Callers : step_check(t)
    \/ \E t \in Callers : collect(t)

SpecConcurrent == Init /\ [][NextConcurrent]_vars

Next ==
    \/ NextEngine \/ NextChecker \/ NextDefault \/ NextHost \/ NextCaller
    \/ NextConcurrent \/ NextDefaultChecker \/ NextJson

Spec == Init /\ [][Next]_vars

\* ---- properties of PolicyEngine::evaluate -----------------------------------

Evaluated == op = "evaluate"

\* what the k-th registered policy returns for the context of the last evaluate
Returned(k) == Invoke(policies_[k].evaluate, ctx[1])
ReturnsAbstain(k) == Returned(k) = <<>>
ReturnsDeny(k) == Returned(k) # <<>> /\ Returned(k)[1].effect = "Deny"
ReturnsAllow(k) == Returned(k) # <<>> /\ Returned(k)[1].effect = "Allow"
OutcomeOf(k) ==
    IF ReturnsAbstain(k) THEN "Abstain"
    ELSE IF ReturnsDeny(k) THEN "Deny" ELSE "Allow"

Registered == 1..Len(policies_)
FirstDenyAt(i) == ReturnsDeny(i) /\ \A j \in 1..(i - 1) : ~ReturnsDeny(j)
FirstAllowAt(i) == ReturnsAllow(i) /\ \A j \in 1..(i - 1) : ~ReturnsAllow(j)

decision == result[1].decision
steps == result[1].trace.steps

\* C1: deny wins over any earlier Allow.  If the policy at position i is the
\* first that returns Deny, evaluate returns effect Deny with that policy's
\* reason, whatever the policies before it returned; the policies after it
\* are neither invoked nor recorded in the trace.
C1_DenyWins ==
    Evaluated =>
        \A i \in Registered :
            FirstDenyAt(i) =>
                /\ decision.effect = "Deny"
                /\ decision.reason = Returned(i)[1].reason
                /\ Len(steps) = i
                /\ Len(invoked) = i
                /\ \A k \in 1..i : invoked[k] = k

C1_Witness ==
    /\ Evaluated
    /\ \E i \in Registered :
          /\ FirstDenyAt(i)
          /\ i < Len(policies_)
          /\ \E j \in 1..(i - 1) : ReturnsAllow(j)
          /\ decision.effect = "Deny"

\* C2: fail-closed.  evaluate returns Allow only if some registered policy
\* returned Allow for the context and no registered policy returns Deny for
\* it; in every other case the effect is Deny.
AllowJustified ==
    /\ \E i \in Registered : ReturnsAllow(i)
    /\ \A i \in Registered : ~ReturnsDeny(i)

C2_FailClosed ==
    Evaluated =>
        /\ decision.effect = "Allow" => AllowJustified
        /\ ~AllowJustified => decision.effect = "Deny"

C2_Witness ==
    /\ Evaluated
    /\ decision.effect = "Allow"
    /\ \E i \in Registered : ReturnsAbstain(i)
    /\ \E i \in Registered : ReturnsAllow(i)

\* C3 (P2): if the first policy with a non-Abstain outcome is a Deny at
\* 0-based index i (position i + 1), evaluate returns that Deny and the trace
\* has exactly i + 1 steps, the first i Abstain and the last Deny.
C3_FirstDecisiveIsDeny ==
    Evaluated =>
        \A p \in Registered :
            (ReturnsDeny(p) /\ \A j \in 1..(p - 1) : ReturnsAbstain(j)) =>
                /\ decision = Returned(p)[1]
                /\ Len(steps) = p
                /\ \A j \in 1..(p - 1) : steps[j].outcome = "Abstain"
                /\ steps[p].outcome = "Deny"

C3_Witness ==
    /\ Evaluated
    /\ \E p \in Registered :
          /\ p >= 2
          /\ p < Len(policies_)
          /\ ReturnsDeny(p)
          /\ \A j \in 1..(p - 1) : ReturnsAbstain(j)
          /\ Len(steps) = p

\* C4 (P3): if no registered policy denies and at least one allows, evaluate
\* returns the decision of the first Allow in registration order and the
\* trace has one step per registered policy.
C4_FirstAllowSticks ==
    Evaluated =>
        (AllowJustified =>
            /\ \A i \in Registered : FirstAllowAt(i) => decision = Returned(i)[1]
            /\ Len(steps) = Len(policies_))

C4_Witness ==
    /\ Evaluated
    /\ AllowJustified
    /\ \E i \in Registered :
          /\ FirstAllowAt(i)
          /\ decision = Returned(i)[1]
          /\ \E k \in (i + 1)..Len(policies_) :
                ReturnsAllow(k) /\ Returned(k) # Returned(i)

\* C5: default deny.  When every registered policy abstains, evaluate returns
\* exactly {Deny, "default", "No policy explicitly granted access."} and the
\* trace has one Abstain step per registered policy.
C5_DefaultDeny ==
    Evaluated =>
        ((\A i \in Registered : ReturnsAbstain(i)) =>
            /\ decision = [effect |-> "Deny", policy_name |-> "default",
                           reason |-> "No policy explicitly granted access."]
            /\ Len(steps) = Len(policies_)
            /\ \A k \in 1..Len(steps) : steps[k].outcome = "Abstain")

C5_Witness ==
    /\ Evaluated
    /\ Len(policies_) >= 2
    /\ \A i \in Registered : ReturnsAbstain(i)
    /\ decision.policy_name = "default"

\* C6 (P1): an engine with no registered policies denies every context with
\* policy_name "default", and the trace has zero steps.
C6_EmptyEngineDenies ==
    (Evaluated /\ Len(policies_) = 0) =>
        /\ decision.effect = "Deny"
        /\ decision.policy_name = "default"
        /\ Len(steps) = 0

C6_Witness ==
    /\ Evaluated
    /\ policy_count = 0
    /\ result # <<>>
    /\ result[1].trace.context = ctx[1]

\* C7: the decision names the policy that produced it.  On a Deny result the
\* decision's policy_name is the registered name of the denying policy, which
\* is the policy_name of the last trace step, and on an Allow result that of
\* the first Allow step; the decision's reason is that step's reason.
DecidingStep ==
    IF decision.effect = "Allow"
    THEN CHOOSE k \in 1..Len(steps) :
            /\ steps[k].outcome = "Allow"
            /\ \A j \in 1..(k - 1) : steps[j].outcome # "Allow"
    ELSE Len(steps)

C7_DecisionNamesItsPolicy ==
    (Evaluated /\ (\E i \in Registered : ~ReturnsAbstain(i))) =>
        /\ decision.policy_name = policies_[DecidingStep].name
        /\ decision.policy_name = steps[DecidingStep].policy_name
        /\ decision.reason = steps[DecidingStep].reason

\* C8: trace order.  The k-th trace step carries the name of the k-th
\* registered policy and the outcome that policy returned; the trace is a
\* prefix of the registration order, cut only directly after a Deny step.
C8_TraceOrder ==
    Evaluated =>
        /\ Len(steps) <= Len(policies_)
        /\ \A k \in 1..Len(steps) :
              /\ steps[k].policy_name = policies_[k].name
              /\ steps[k].outcome = OutcomeOf(k)
              /\ k < Len(steps) => steps[k].outcome # "Deny"
        /\ Len(steps) < Len(policies_) =>
              (Len(steps) > 0 /\ steps[Len(steps)].outcome = "Deny")

C8_Witness ==
    /\ Evaluated
    /\ Len(steps) = 2
    /\ Len(policies_) > 2
    /\ steps[1].outcome = "Allow"
    /\ steps[1].policy_name # Returned(1)[1].policy_name
    /\ steps[2].outcome = "Deny"

\* C9 as stated: in every trace step the reason is empty if and only if the
\* outcome is Abstain, for every policy a host can register.
C9_ReasonEmptyIffAbstain ==
    Evaluated =>
        \A k \in 1..Len(steps) :
            (steps[k].reason = "") <=> (steps[k].outcome = "Abstain")

\* the predicates whose decisions all carry a reason: the built-in policies
\* and the policies of the tests
ReasonedFns ==
    { "admin_full_access", "mfa_required_for_restricted",
      "production_immutability", "analyst_read_only", "engineer_access",
      "AlwaysAbstain", "AlwaysAllow", "AlwaysDeny" }

\* C9 amended: every Abstain step has reason "", and every Allow or Deny step
\* carries exactly the reason its predicate returned, which is non-empty for
\* the built-in policies and may be empty for a host-supplied predicate.
C9_ReasonAsReturned ==
    Evaluated =>
        \A k \in 1..Len(steps) :
            /\ steps[k].outcome = "Abstain" => steps[k].reason = ""
            /\ steps[k].outcome # "Abstain" =>
                  steps[k].reason = Returned(k)[1].reason
            /\ policies_[k].evaluate \in ReasonedFns =>
                  ((steps[k].reason = "") <=> (steps[k].outcome = "Abstain"))

C9_Witness ==
    /\ Evaluated
    /\ \E k \in 1..Len(steps) :
          steps[k].outcome = "Abstain" /\ steps[k].reason = ""
    /\ \E k \in 1..Len(steps) :
          steps[k].outcome # "Abstain" /\ steps[k].reason = ""
    /\ \E k \in 1..Len(steps) :
          steps[k].outcome # "Abstain" /\ steps[k].reason # ""

\* ---- properties of ComplianceChecker::evaluate ------------------------------

Checked == op = "check"

Fails(rule) == ~Check(rule.check, resource[1])
FailingRules == SelectSeq(rules_, Fails)

\* C10 (P5): ComplianceChecker::evaluate never short-circuits.  Every
\* registered rule is checked exactly once, in order, and the violations are
\* one "[name] description" entry per failing rule, in registration order.
C10_NeverShortCircuits ==
    Checked =>
        /\ Len(checked) = Len(rules_)
        /\ \A k \in 1..Len(rules_) : checked[k] = k
        /\ Len(report[1].violations) = Len(FailingRules)
        /\ \A k \in 1..Len(FailingRules) :
              report[1].violations[k] =
                  "[" \o FailingRules[k].name \o "] " \o FailingRules[k].description

C10_Witness ==
    /\ Checked
    /\ Len(rules_) = 3
    /\ Fails(rules_[1])
    /\ ~Fails(rules_[2])
    /\ Fails(rules_[3])
    /\ Len(report[1].violations) = 2

\* C11: the report's compliant() is true if and only if its violations list
\* is empty, which holds if and only if every registered rule's predicate
\* returned true for the resource; a checker with zero rules reports every
\* resource compliant.
C11_CompliantIffAllPass ==
    Checked =>
        /\ compliant(report[1]) <=> (report[1].violations = <<>>)
        /\ (report[1].violations = <<>>) <=>
              (\A k \in 1..Len(rules_) : Check(rules_[k].check, resource[1]))
        /\ Len(rules_) = 0 => compliant(report[1])

C11_Witness ==
    /\ Checked
    /\ Len(rules_) >= 2
    /\ \A k \in 1..Len(rules_) : Check(rules_[k].check, resource[1])
    /\ compliant(report[1])
    /\ report[1].resource_id = resource[1].id

\* ---- properties of the trace ------------------------------------------------

\* C16 (P4): for every trace returned by evaluate, evaluated_count() +
\* abstain_count() is the number of steps, evaluated_count() being the number
\* of Allow or Deny steps and abstain_count() the number of Abstain steps.
C16_CountsPartitionSteps ==
    Evaluated =>
        LET trace == result[1].trace
            decisive == {k \in 1..Len(steps) : steps[k].outcome \in {"Allow", "Deny"}}
            abstained == {k \in 1..Len(steps) : steps[k].outcome = "Abstain"}
        IN  /\ evaluated_count(trace) + abstain_count(trace) = Len(steps)
            /\ evaluated_count(trace) = Cardinality(decisive)
            /\ abstain_count(trace) = Cardinality(abstained)

C16_Witness ==
    /\ Evaluated
    /\ evaluated_count(result[1].trace) = 2
    /\ abstain_count(result[1].trace) = 1
    /\ steps[Len(steps)].outcome = "Deny"

\* C17: the trace has zero steps if and only if the engine holds zero
\* policies; with at least one registered policy the trace has at least one
\* step and never more steps than registered policies.
C17_TraceEmptyIffNoPolicies ==
    Evaluated =>
        /\ (Len(steps) = 0) <=> (policy_count = 0)
        /\ policy_count >= 1 => (Len(steps) >= 1 /\ Len(steps) <= policy_count)

C17_Witness ==
    /\ Evaluated
    /\ policy_count >= 2
    /\ Len(steps) = 1
    /\ ReturnsDeny(1)

\* ---- properties of the default engine ---------------------------------------

\* the last operation was an evaluate on the engine of default_policy_engine()
DefaultEvaluated == Evaluated /\ policies_ = default_policy_engine

request == ctx[1]
MfaMissing ==
    request.resource.classification = "restricted" /\ ~request.mfa_verified

C20_ProductionImmutable ==
    ( /\ DefaultEvaluated
      /\ request.environment = "production"
      /\ request.action.verb \in {"write", "delete"}
      /\ request.principal.role # "admin" ) =>
        /\ decision.effect = "Deny"
        /\ ~MfaMissing => decision.policy_name = "ProductionImmutability"

C20_Witness ==
    /\ DefaultEvaluated
    /\ request.environment = "production"
    /\ request.action.verb = "write"
    /\ request.principal.role = "analyst"
    /\ request.resource.classification = "confidential"
    /\ decision.policy_name = "ProductionImmutability"
    /\ Len(steps) = 3

C22_AnalystReadOnly ==
    (DefaultEvaluated /\ request.principal.role = "analyst") =>
        /\ decision.effect \in {"Allow", "Deny"}
        /\ decision.effect = "Allow" <=>
              /\ request.action.verb = "read"
              /\ request.resource.classification \notin
                    {"confidential", "restricted"}
        /\ decision.effect = "Allow" => decision.policy_name = "AnalystReadOnly"

C22_Witness ==
    /\ DefaultEvaluated
    /\ request.principal.role = "analyst"
    /\ request.action.verb = "read"
    /\ request.resource.classification = "confidential"
    /\ request.environment = "dev"
    /\ decision.effect = "Deny"
    /\ decision.policy_name = "AnalystReadOnly"

\* C30: with the default engine no request of a principal whose role is not
\* admin, analyst or engineer is allowed: for every resource, action,
\* environment and MFA flag the result is Deny, by the default decision
\* unless MFARequiredForRestricted or ProductionImmutability denies first.
C30_UnknownRoleDenied ==
    ( /\ DefaultEvaluated
      /\ request.principal.role \notin {"admin", "analyst", "engineer"} ) =>
        /\ decision.effect = "Deny"
        /\ decision.policy_name =
              IF MfaMissing THEN "MFARequiredForRestricted"
              ELSE IF /\ request.environment = "production"
                      /\ request.action.verb \in {"write", "delete"}
              THEN "ProductionImmutability"
              ELSE "default"

C30_Witness ==
    /\ DefaultEvaluated
    /\ request.principal.role = ""
    /\ request.resource.classification = "public"
    /\ request.action.verb = "read"
    /\ request.environment = "dev"
    /\ decision.effect = "Deny"
    /\ decision.policy_name = "default"
    /\ Len(steps) = 5

\* ---- the reference instantiation ------------------------------------------

PolicyNames == [k \in 1..Len(policies_) |-> policies_[k].name]
RuleNames == [k \in 1..Len(rules_) |-> rules_[k].name]

\* C23: the default engine holds exactly five policies in the order
\* AdminFullAccess, MFARequiredForRestricted, ProductionImmutability,
\* AnalystReadOnly, EngineerAccess, and the default checker exactly four
\* rules in the order RequiresOwnerTag, SecretsNotPublic,
\* DatabasesMustBeRestricted, NoUnclassifiedResources.
C23_DefaultOrder ==
    /\ op = "default_policy_engine" =>
          /\ policy_count = 5
          /\ PolicyNames = <<"AdminFullAccess", "MFARequiredForRestricted",
                             "ProductionImmutability", "AnalystReadOnly",
                             "EngineerAccess">>
          /\ \A k \in 1..5 :
                policies_[k].evaluate =
                    <<"admin_full_access", "mfa_required_for_restricted",
                      "production_immutability", "analyst_read_only",
                      "engineer_access">>[k]
    /\ op = "default_compliance_checker" =>
          /\ rule_count = 4
          /\ RuleNames = <<"RequiresOwnerTag", "SecretsNotPublic",
                           "DatabasesMustBeRestricted",
                           "NoUnclassifiedResources">>
          /\ \A k \in 1..4 : rules_[k].check = RuleNames[k]

C23_Witness ==
    /\ op = "default_compliance_checker"
    /\ rule_count = 4
    /\ policy_count = 5

DefaultChecked == op = "check" /\ rules_ = default_compliance_checker

inspected == resource[1]
violations == report[1].violations

\* the violation string when the rule fails, nothing when it passes
When(fails, text) == IF fails THEN <<text>> ELSE <<>>

\* C24: with the default checker, the violations of any resource are exactly
\* the failing rules among RequiresOwnerTag (no owner tag), SecretsNotPublic
\* (type secret and classification public), DatabasesMustBeRestricted (type
\* database and classification neither restricted nor confidential) and
\* NoUnclassifiedResources (empty classification), each formatted
\* "[name] description" and listed in that order.
C24_DefaultViolations ==
    DefaultChecked =>
        violations =
            When(\A t \in inspected.tags : t[1] # "owner",
                 "[RequiresOwnerTag] Resource must have an 'owner' tag.")
         \o When(inspected.type = "secret" /\ inspected.classification = "public",
                 "[SecretsNotPublic] Resources of type 'secret' must not be classified as 'public'.")
         \o When(/\ inspected.type = "database"
                 /\ inspected.classification \notin {"restricted", "confidential"},
                 "[DatabasesMustBeRestricted] Database resources must be classified as 'restricted' or 'confidential'.")
         \o When(inspected.classification = "",
                 "[NoUnclassifiedResources] Every resource must have a non-empty classification.")

\* a public database without tags: RequiresOwnerTag then
\* DatabasesMustBeRestricted
C24_Witness ==
    /\ DefaultChecked
    /\ inspected.type = "database"
    /\ inspected.classification = "public"
    /\ inspected.tags = {}
    /\ Len(violations) = 2
    /\ violations[1] = "[RequiresOwnerTag] Resource must have an 'owner' tag."
    /\ violations[2] =
          "[DatabasesMustBeRestricted] Database resources must be classified as 'restricted' or 'confidential'."

\* ---- cost of one call --------------------------------------------------------

\* C29: evaluate makes at most policy_count() predicate invocations
\* (rule_count() for the checker).  Within one PolicyEngine::evaluate call
\* each registered predicate is invoked at most once, in registration order,
\* and none is invoked after one has returned Deny; within one
\* ComplianceChecker::evaluate call each rule predicate is invoked exactly
\* once.
C29_BoundedInvocations ==
    /\ Evaluated =>
          /\ Len(invoked) <= policy_count
          /\ \A k \in 1..Len(invoked) : invoked[k] = k
          /\ \A k \in 1..Len(invoked) :
                ReturnsDeny(k) => k = Len(invoked)
    /\ Checked =>
          /\ Len(checked) = rule_count
          /\ \A k \in 1..rule_count :
                Cardinality({j \in 1..Len(checked) : checked[j] = k}) = 1

C29_Witness ==
    /\ Evaluated
    /\ policy_count = 3
    /\ rule_count = 2
    /\ ReturnsAllow(1)
    /\ ReturnsDeny(2)
    /\ invoked = <<1, 2>>

\* ---- frame properties -------------------------------------------------------

\* C13: evaluate is a pure function of the registered list and the input.
\* PolicyEngine::evaluate and ComplianceChecker::evaluate leave the
\* registered policy and rule lists unchanged, and a second call with the
\* same context or resource returns an equal result.
C13_EvaluateIsPure ==
    [][ /\ op' \in {"evaluate", "check"} =>
              (policies_' = policies_ /\ rules_' = rules_)
        /\ (op = "evaluate" /\ op' = "evaluate" /\ ctx' = ctx) =>
              result' = result
        \* a result with one step per policy was computed on the present list
        /\ (op' = "evaluate" /\ result # <<>> /\ ctx' = <<result[1].trace.context>>
              /\ Len(result[1].trace.steps) = Len(policies_)) =>
              result' = result
        /\ (op = "check" /\ op' = "check" /\ resource' = resource) =>
              report' = report ]_vars

C13_Witness ==
    /\ op = "evaluate"
    /\ Len(policies_) = MaxPolicies
    /\ Len(result[1].trace.steps) = Len(policies_)
    /\ result[1].decision.effect = "Allow"
    /\ report # <<>>
    /\ Len(rules_) >= 1

\* C15: register_policy and add_rule are append-only.  Each call adds
\* exactly one entry at the end of its list and raises the count by one,
\* keeps the earlier entries in order and checks no uniqueness; policies
\* with duplicate names are each evaluated, in the order registered.
C15_AppendOnly ==
    [][ /\ op' = "register_policy" =>
              /\ policy_count' = policy_count + 1
              /\ SubSeq(policies_', 1, Len(policies_)) = policies_
              /\ \E policy \in HostPolicies : policies_' = Append(policies_, policy)
              /\ rules_' = rules_
        /\ op' = "add_rule" =>
              /\ rule_count' = rule_count + 1
              /\ SubSeq(rules_', 1, Len(rules_)) = rules_
              /\ \E rule \in HostRules : rules_' = Append(rules_, rule)
              /\ policies_' = policies_
        /\ op' = "evaluate" =>
              \A k \in 1..Len(result'[1].trace.steps) :
                  result'[1].trace.steps[k].policy_name = policies_'[k].name ]_vars

C15_Witness ==
    /\ op = "evaluate"
    /\ \E i \in 1..Len(policies_) : \E j \in (i + 1)..Len(policies_) :
          /\ policies_[i].name = policies_[j].name
          /\ policies_[i] # policies_[j]
          /\ Len(result[1].trace.steps) >= j
          /\ result[1].trace.steps[i].outcome # result[1].trace.steps[j].outcome
    /\ \E i \in 1..Len(rules_) : \E j \in (i + 1)..Len(rules_) :
          rules_[i] = rules_[j]

\* C12: the trace's context is a snapshot equal to the RequestContext passed
\* to evaluate, and it is independent of the caller's object: writing to or
\* destroying the caller's context after evaluate returns, and further
\* evaluate or register_policy calls, leave an already returned
\* EvaluationResult unchanged.
C12_TraceContextIsSnapshot ==
    [][ /\ op' = "evaluate" => result'[1].trace.context = ctx'[1]
        /\ op' \in {"mutate_ctx", "destroy_ctx", "register_policy", "keep"} =>
              result' = result
        /\ op' # "keep" => kept' = kept ]_vars

C12_Witness ==
    /\ op = "mutate_ctx"
    /\ kept # <<>>
    /\ result # <<>>
    /\ kept # result
    /\ ctx[1] # kept[1].trace.context
    /\ ctx[1] # result[1].trace.context
    /\ Len(policies_) > Len(kept[1].trace.steps)
    /\ kept[1].trace.context.mfa_verified
    /\ kept[1].trace.context.resource.tags # {}

\* ---- concurrent callers -----------------------------------------------------

\* C14: the use phase is safe for concurrent callers.  Once registration has
\* finished, any interleaving of concurrent evaluate calls on one engine, and
\* on one checker, gives every caller the result it would get running alone.
C14_ConcurrentCallersAgree ==
    \A t \in Callers :
        frame[t].pc = "done" =>
            IF frame[t].kind = "evaluate"
            THEN LET alone == PolicyEngine_evaluate(policies_, frame[t].arg)
                 IN  frame[t].ret[1] =
                        [decision |-> alone.decision, trace |-> alone.trace]
            ELSE frame[t].ret[1] =
                    ComplianceChecker_evaluate(rules_, frame[t].arg).report

C14_Witness ==
    /\ policies_ = default_policy_engine
    /\ rules_ = default_compliance_checker
    /\ frame[1].pc = "done" /\ frame[1].overlap /\ frame[1].kind = "evaluate"
    /\ frame[2].pc = "done" /\ frame[2].overlap /\ frame[2].kind = "evaluate"
    /\ frame[1].ret[1].decision.effect = "Deny"
    /\ frame[2].ret[1].decision.effect = "Allow"
    /\ Len(frame[1].ret[1].trace.steps) = 2
    /\ Len(frame[2].ret[1].trace.steps) = 5

\* ---- properties of the Result Projector -------------------------------------

Escaped == op = "escape"
input == projected.value

\* the character at position k, or nothing past the end
Peek(s, k) == IF k <= Len(s) THEN SubSeq(s, k, k) ELSE ""

Reserved == {"\"", "\\", "\n", "\r", "\t"}

\* the number of reserved characters among the first k characters of s
ReservedIn(s, k) == Cardinality({j \in 1..k : Peek(s, j) \in Reserved})

\* the second character of the backslash sequence of a reserved character
SequenceLetter(c) ==
    CASE c = "\"" -> "\""
      [] c = "\\" -> "\\"
      [] c = "\n" -> "n"
      [] c = "\r" -> "r"
      [] c = "\t" -> "t"

\* C25: escape rewrites exactly five characters (double quote, backslash,
\* newline, carriage return, tab) to their two-character backslash sequences
\* and copies every other character unchanged, so the length of the output is
\* the length of the input plus the number of reserved characters in it.
C25_EscapeRewritesFive ==
    Escaped =>
        /\ Len(json) = Len(input) + ReservedIn(input, Len(input))
        /\ \A k \in 1..Len(input) :
              LET at == k + ReservedIn(input, k - 1)
              IN  IF Peek(input, k) \in Reserved
                  THEN /\ Peek(json, at) = "\\"
                       /\ Peek(json, at + 1) = SequenceLetter(Peek(input, k))
                  ELSE Peek(json, at) = Peek(input, k)

C25_Witness ==
    /\ Escaped
    /\ input = "\"\fn"
    /\ json = "\\\"\fn"
    /\ Len(json) = 4

\* the character a backslash sequence stands for
SequenceValue(c) ==
    CASE c = "n" -> "\n"
      [] c = "r" -> "\r"
      [] c = "t" -> "\t"
      [] OTHER -> c

\* the inverse reading of escaped text: a backslash and the character after
\* it stand for one character, any other character stands for itself
RECURSIVE UnescapeFrom(_, _, _)
UnescapeFrom(s, i, acc) ==
    IF i > Len(s) THEN acc
    ELSE IF Peek(s, i) = "\\"
    THEN UnescapeFrom(s, i + 2, acc \o SequenceValue(Peek(s, i + 1)))
    ELSE UnescapeFrom(s, i + 1, acc \o Peek(s, i))

Unescape(s) == UnescapeFrom(s, 1, "")

\* C26: round trip.  For every string over an alphabet with the five
\* reserved characters and ordinary characters, unescaping the output of
\* escape gives back the original string, so two different inputs never give
\* the same escaped text.
C26_RoundTrip ==
    Escaped => Unescape(json) = input

\* a backslash followed by the letter n, which is not a newline
C26_Witness ==
    /\ Escaped
    /\ input = "\\n"
    /\ json = "\\\\n"
    /\ json # escape("\n")

\* the control characters (below 0x20) of the alphabet
ControlCharacters == {"\n", "\r", "\t", "\f"}

\* the characters of JSON text outside string literals, as to_json emits them:
\* white space, punctuation and the letters of true and false
Structural ==
    {" ", "\n", "{", "}", "[", "]", ",", ":",
     "t", "r", "u", "e", "f", "a", "l", "s"}

\* the characters that may follow a backslash in a JSON string literal
JsonEscapes == {"\"", "\\", "/", "b", "f", "n", "r", "t", "u"}

\* the number of backslashes directly before position j
BackslashesBefore(s, j) ==
    CHOOSE n \in 0..(j - 1) :
        /\ \A m \in 1..n : Peek(s, j - m) = "\\"
        /\ n = j - 1 \/ Peek(s, j - n - 1) # "\\"

\* a character after an odd number of backslashes is the second character of
\* a backslash sequence
IsEscaped(s, j) == BackslashesBefore(s, j) % 2 = 1

\* the positions of the double quotes that delimit the string literals
Delimiters(s) == {j \in 1..Len(s) : Peek(s, j) = "\"" /\ ~IsEscaped(s, j)}

\* JSON text whose string literals are closed, hold no raw control character
\* and only known backslash sequences, and with nothing but white space,
\* punctuation, true and false between them
WellFormed(s) ==
    LET q == Delimiters(s)
    IN  /\ Cardinality(q) % 2 = 0
        /\ \A j \in (1..Len(s)) \ q :
              LET c == Peek(s, j)
              IN  IF Cardinality({p \in q : p < j}) % 2 = 0
                  THEN c \in Structural
                  ELSE /\ c \notin ControlCharacters
                       /\ (c = "\\" /\ ~IsEscaped(s, j)) =>
                              Peek(s, j + 1) \in JsonEscapes

Projected == op \in {"quoted", "to_json"}

\* C27: to_json returns valid JSON for every input value: every string field
\* is emitted as a well-formed JSON string literal, which between its quotes
\* holds no unescaped double quote, no unescaped backslash and no raw control
\* character below 0x20.
C27_StringLiteralsWellFormed ==
    Projected => WellFormed(json)

\* the k-th delimiting quote
Delimiter(s, k) ==
    CHOOSE x \in Delimiters(s) : Cardinality({y \in Delimiters(s) : y < x}) = k - 1

\* the string literals of JSON text in order of appearance, unescaped; a
\* literal directly followed by a colon is a key
Literals(s) ==
    [k \in 1..(Cardinality(Delimiters(s)) \div 2) |->
        LET open == Delimiter(s, 2 * k - 1)
            close == Delimiter(s, 2 * k)
        IN  [key |-> Peek(s, close + 1) = ":",
             text |-> Unescape(SubSeq(s, open + 1, close - 1))]]

\* the text between the k-th literal and the next one
After(s, k) ==
    SubSeq(s, Delimiter(s, 2 * k) + 1, Delimiter(s, 2 * k + 1) - 1)

Key(name) == [key |-> TRUE, text |-> name]
Value(v) == [key |-> FALSE, text |-> v]

Field(name, v) == <<Key(name), Value(v)>>

StepFields(st) ==
    Field("policy", st.policy_name) \o Field("outcome", st.outcome)
    \o Field("reason", st.reason)

RECURSIVE Flatten(_)
Flatten(seqs) == IF seqs = <<>> THEN <<>> ELSE Head(seqs) \o Flatten(Tail(seqs))

\* C28: the projections have the fixed field order.  An EvaluationResult is
\* emitted as the decision object (effect, policy_name, reason) followed by
\* the trace object with principal id, resource id, action verb, environment
\* and then the steps array, one element per trace step in trace order, each
\* with fields policy, outcome and reason; a ComplianceReport is emitted as
\* resource_id, then compliant (true exactly when the violations array is
\* empty), then the violations in report order.
C28_FieldOrder ==
    /\ (op = "to_json" /\ projected.kind = "EvaluationResult") =>
          Literals(json) =
              <<Key("decision")>>
              \o Field("effect", input.decision.effect)
              \o Field("policy_name", input.decision.policy_name)
              \o Field("reason", input.decision.reason)
              \o <<Key("trace")>>
              \o Field("principal", input.trace.context.principal.id)
              \o Field("resource", input.trace.context.resource.id)
              \o Field("action", input.trace.context.action.verb)
              \o Field("environment", input.trace.context.environment)
              \o <<Key("steps")>>
              \o Flatten([k \in 1..Len(input.trace.steps) |->
                             StepFields(input.trace.steps[k])])
    /\ (op = "to_json" /\ projected.kind = "ComplianceReport") =>
          /\ Literals(json) =
                Field("resource_id", input.resource_id)
                \o <<Key("compliant"), Key("violations")>>
                \o [k \in 1..Len(input.violations) |-> Value(input.violations[k])]
          /\ After(json, 3) =
                ": " \o (IF input.violations = <<>> THEN "true" ELSE "false")
                \o ",\n  "
    /\ (op = "to_json" /\ projected.kind = "PolicyStep") =>
          Literals(json) = StepFields(input)
    /\ (op = "to_json" /\ projected.kind = "PolicyDecision") =>
          Literals(json) =
              Field("effect", input.effect)
              \o Field("policy_name", input.policy_name)
              \o Field("reason", input.reason)

C28_Witness ==
    /\ op = "to_json"
    /\ projected.kind = "EvaluationResult"
    /\ Len(input.trace.steps) = 3
    /\ input.trace.steps[1].outcome = "Abstain"
    /\ input.trace.steps[2].outcome = "Allow"
    /\ input.trace.steps[3].outcome = "Deny"
    /\ input.trace.context.principal.id = "o\"brien"
    /\ Len(Literals(json)) = 35

====
